---- MODULE Spec2Model ----
(***************************************************************************)
(* FinLiborCapFloor (financepy/products/libor/FinLiborCapFloor.py): a cap  *)
(* or floor on a floating rate, its constructor, value() and the caplet /  *)
(* floorlet pricer valueCapletFloorLet().                                  *)
(*                                                                         *)
(* Numbers.  Floats are modelled by exact integers in fixed units:         *)
(*   - dates are whole quarters; yearFrac is the number of quarters;       *)
(*   - rates (forward, strike, shift, last fixing) are integer multiples   *)
(*     of 1e-10, so the pricer's substitute strike 1e-10 is the rate 1;    *)
(*   - volatilities likewise, so the substitute volatility 1e-10 is 1;     *)
(*   - discount factors are multiples of 1/DfOne (1.00 is DfOne);          *)
(*   - the normal CDF takes the values 0..NScale, for 0 .. 1, so every     *)
(*     amount of money is held in units of 1/NScale (see Money);           *)
(*   - NaN is the IEEE not-a-number, which every operation propagates.     *)
(***************************************************************************)
EXTENDS Integers, Sequences, FiniteSets, TLC

VARIABLES capFloor, lastOp, lastArgs, lastOutcome, earlier

vars == <<capFloor, lastOp, lastArgs, lastOutcome, earlier>>

(***************************************************************************)
(* Bounds of the explored inputs.                                          *)
(***************************************************************************)
MaxDate == 3
MaxStrike == 2

(***************************************************************************)
(* Representation of the numbers.                                          *)
(***************************************************************************)
None == -9999
NaN == -8888
DfOne == 2
NScale == 8
RateEps == 1
VolEps == 1

IsNaN(x) == x = NaN

Add(a, b) == IF IsNaN(a) \/ IsNaN(b) THEN NaN ELSE a + b

Sub(a, b) == IF IsNaN(a) \/ IsNaN(b) THEN NaN ELSE a - b

Mul(a, b) == IF IsNaN(a) \/ IsNaN(b) THEN NaN ELSE a * b

Neg(a) == IF IsNaN(a) THEN NaN ELSE 0 - a

Max(a, b) == IF a >= b THEN a ELSE b

\* An amount with no CDF factor in it, in the unit of the amounts (1/NScale).
Money(x) == x * NScale

(***************************************************************************)
(* The enumerations.                                                       *)
(***************************************************************************)
FinLiborCapFloorType == {"CAP", "FLOOR"}

FinFrequencyTypes == {"QUARTERLY", "SEMI_ANNUAL"}

\* Quarters per period of a frequency.
PeriodLength(frequencyType) == IF frequencyType = "QUARTERLY" THEN 1 ELSE 2

(***************************************************************************)
(* External collaborators.                                                 *)
(***************************************************************************)
\* FinSchedule(...).generate(): the period boundaries, generated backward
\* from the maturity date; the first date is the start date.
GenerateSchedule(startDate, maturityDate, frequencyType) ==
    LET step == PeriodLength(frequencyType)
        n == (maturityDate - startDate + step - 1) \div step
    IN [i \in 1..(n + 1) |->
            IF i = 1 THEN startDate ELSE maturityDate - (n + 1 - i) * step]

\* FinDayCount.yearFrac
yearFrac(startDate, endDate) == endDate - startDate

\* The rate curves offered to value(): each has a forward rate for a period
\* and a discount factor for a date.  No forward of a period that starts on
\* or after date 0 is exactly zero.
LiborCurves == {"FLAT", "RISING", "NEGATIVE"}

fwdRate(liborCurve, startDate, endDate) ==
    CASE liborCurve = "FLAT" -> 3
      [] liborCurve = "RISING" -> startDate + 1
      [] OTHER -> IF startDate >= 2 THEN -1 ELSE 2

df(liborCurve, endDate) ==
    CASE liborCurve = "FLAT" -> 1
      [] liborCurve = "RISING" -> IF endDate >= 2 THEN 1 ELSE 2
      [] OTHER -> 2

\* The standard normal CDF of d = num / (2 v sqrt(t)), quantised to 0..NScale
\* on the numerator (the denominator is positive); N(-d) = 1 - N(d).
N(num) ==
    IF IsNaN(num) THEN NaN
    ELSE IF NScale \div 2 + num < 0 THEN 0
    ELSE IF NScale \div 2 + num > NScale THEN NScale
    ELSE NScale \div 2 + num

\* np.log(num / den), by a stand-in with the sign and the zero of the logarithm;
\* the logarithm of a negative ratio is NaN.
Log(num, den) ==
    IF num * den <= 0 THEN NaN
    ELSE IF num > 0 THEN num - den
    ELSE den - num

\* blackVolFromSABR: with beta = 1 and nu = 0 the SABR volatility is alpha.
blackVolFromSABR(alpha, beta, rho, nu, f, k, t) == alpha

(***************************************************************************)
(* The instrument.                                                         *)
(***************************************************************************)
NoInstrument ==
    [constructed |-> FALSE,
     startDate |-> None, maturityDate |-> None, optionType |-> "",
     strikeRate |-> None, lastFixing |-> None, frequencyType |-> "",
     notional |-> None,
     capFloorLetValues |-> <<>>, capFloorLetAlphas |-> <<>>,
     capFloorLetFwdRates |-> <<>>, capFloorLetIntrinsic |-> <<>>,
     capFloorLetDiscountFactors |-> <<>>, capFloorPV |-> <<>>,
     capFloorDates |-> <<>>, valuationDate |-> None]

Return(v) == [kind |-> "return", err |-> "", value |-> v]

Raise(msg) == [kind |-> "raise", err |-> msg, value |-> None]

NoOutcome == [kind |-> "none", err |-> "", value |-> None]

\* FinLiborCapFloor.__init__: the instrument built, or the error raised.
init(startDate, maturityDate, optionType, strikeRate, lastFixing, frequencyType, notional) ==
    IF startDate > maturityDate
    THEN [self |-> NoInstrument,
          outcome |-> Raise("Start date must be before maturity date")]
    ELSE IF optionType \notin FinLiborCapFloorType
    THEN [self |-> NoInstrument,
          outcome |-> Raise("Unknown Libor Cap Floor type")]
    ELSE IF frequencyType \notin FinFrequencyTypes
    THEN [self |-> NoInstrument,
          outcome |-> Raise("Unknown CapFloor Frequency type")]
    ELSE [self |->
            [constructed |-> TRUE,
             startDate |-> startDate, maturityDate |-> maturityDate,
             optionType |-> optionType, strikeRate |-> strikeRate,
             lastFixing |-> lastFixing, frequencyType |-> frequencyType,
             notional |-> notional,
             capFloorLetValues |-> <<>>, capFloorLetAlphas |-> <<>>,
             capFloorLetFwdRates |-> <<>>, capFloorLetIntrinsic |-> <<>>,
             capFloorLetDiscountFactors |-> <<>>, capFloorPV |-> <<>>,
             capFloorDates |-> <<>>, valuationDate |-> None],
          outcome |-> Return(None)]

(***************************************************************************)
(* The volatility models offered to value().                               *)
(***************************************************************************)
FinLiborModelBlack(v) ==
    [type |-> "FinLiborModelBlack", volatility |-> v, shift |-> None,
     alpha |-> None, beta |-> None, rho |-> None, nu |-> None]

FinLiborModelShiftedBlack(v, h) ==
    [type |-> "FinLiborModelShiftedBlack", volatility |-> v, shift |-> h,
     alpha |-> None, beta |-> None, rho |-> None, nu |-> None]

FinLiborModelSABR(alpha, beta, rho, nu) ==
    [type |-> "FinLiborModelSABR", volatility |-> None, shift |-> None,
     alpha |-> alpha, beta |-> beta, rho |-> rho, nu |-> nu]

\* An object that is none of the three models.
NotAModel ==
    [type |-> "object", volatility |-> None, shift |-> None,
     alpha |-> None, beta |-> None, rho |-> None, nu |-> None]

Models ==
    {FinLiborModelBlack(-1), FinLiborModelBlack(0), FinLiborModelBlack(2),
     FinLiborModelShiftedBlack(0, 0), FinLiborModelShiftedBlack(2, 0),
     FinLiborModelShiftedBlack(2, -2),
     FinLiborModelSABR(1, 1, 0, 0), NotAModel}

(***************************************************************************)
(* FinLiborCapFloor.valueCapletFloorLet: the price of one caplet or        *)
(* floorlet per unit of notional and accrual, or the error raised.         *)
(***************************************************************************)
\* d1 * (2 v sqrt(t)), from log(F / K) + v * v * t / 2.0
D1(logFK, v, t) == Add(Mul(2, logFK), v * v * t)

\* d2 * (2 v sqrt(t)), from d1 - v * sqrt(t)
D2(d1, v, t) == Sub(d1, 2 * v * v * t)

\* Slip: the floorlet takes N(+d2) and N(+d1), the signs of the caplet.
BlackFormula_FloorSigns(optionType, dfEnd, F, K, d1, d2) ==
    IF optionType = "CAP"
    THEN Mul(dfEnd, Sub(Mul(F, N(d1)), Mul(K, N(d2))))
    ELSE Mul(dfEnd, Sub(Mul(K, N(d2)), Mul(F, N(d1))))

\* df * (F * N(+d1) - K * N(+d2))  or  df * (K * N(-d2) - F * N(-d1))
BlackFormula(optionType, dfEnd, F, K, d1, d2) ==
    IF optionType = "CAP"
    THEN Mul(dfEnd, Sub(Mul(F, N(d1)), Mul(K, N(d2))))
    ELSE Mul(dfEnd, Sub(Mul(K, N(Neg(d2))), Mul(F, N(Neg(d1)))))

\* k = self._strikeRate; if k == 0.0: k = 1e-10
PricerStrike(strikeRate) == IF strikeRate = 0 THEN RateEps ELSE strikeRate

PriceBlack(self, dfEnd, t, f, k, model) ==
    LET v0 == model.volatility
        v == IF v0 = 0 THEN VolEps ELSE v0
        d1 == D1(Log(f, k), v, t)
        d2 == D2(d1, v, t)
    IN IF v0 < 0 THEN Raise("Black Volatility must be positive")
       ELSE IF f <= 0
       THEN Raise("Forward must be positive in lognormal model.")
       ELSE Return(BlackFormula(self.optionType, dfEnd, f, k, d1, d2))

PriceShiftedBlack(self, dfEnd, t, f, k, model) ==
    LET v == model.volatility
        h == model.shift
        d1 == D1(Log(f - h, k - h), v, t)
        d2 == D2(d1, v, t)
    IN IF v <= 0 THEN Raise("Black Volatility must be positive")
       ELSE Return(BlackFormula(self.optionType, dfEnd, f - h, k - h, d1, d2))

PriceSABR(self, dfEnd, t, f, k, model) ==
    LET v == blackVolFromSABR(model.alpha, model.beta, model.rho, model.nu,
                              f, k, t)
        d1 == D1(Log(f, k), v, t)
        d2 == D2(d1, v, t)
    IN Return(BlackFormula(self.optionType, dfEnd, f, k, d1, d2))

valueCapletFloorLet(self, valuationDate, startDate, endDate, liborCurve, model) ==
    LET dfEnd == df(liborCurve, endDate)
        t == startDate - valuationDate
        f == fwdRate(liborCurve, startDate, endDate)
        k == PricerStrike(self.strikeRate)
    IN IF model.type = "FinLiborModelBlack"
       THEN PriceBlack(self, dfEnd, t, f, k, model)
       ELSE IF model.type = "FinLiborModelShiftedBlack"
       THEN PriceShiftedBlack(self, dfEnd, t, f, k, model)
       ELSE IF model.type = "FinLiborModelSABR"
       THEN PriceSABR(self, dfEnd, t, f, k, model)
       ELSE Raise("Unknown model type")

(***************************************************************************)
(* FinLiborCapFloor.value                                                  *)
(***************************************************************************)
\* seq[i] of the code: sequences are indexed from 0 there.
At(seq, i) == seq[i + 1]

\* df * alpha * max(fwdRate - strikeRate, 0), or max(strikeRate - fwdRate, 0)
\* for a floor, times the notional.
IntrinsicValue(self, dfEnd, alpha, fwd) ==
    LET payoff == IF self.optionType = "CAP"
                  THEN Max(fwd - self.strikeRate, 0)
                  ELSE Max(self.strikeRate - fwd, 0)
    IN dfEnd * alpha * Money(payoff) * self.notional

\* Slip: the append to the intrinsic series is missing.
AppendPeriod_NoIntrinsic(self, fwd, letValue, alpha, intrinsic, dfEnd, capFloorValue) ==
    [self EXCEPT
        !.capFloorLetFwdRates = Append(@, fwd),
        !.capFloorLetValues = Append(@, letValue),
        !.capFloorLetAlphas = Append(@, alpha),
        !.capFloorLetDiscountFactors = Append(@, dfEnd),
        !.capFloorPV = Append(@, capFloorValue)]

\* Slip: the period's PV is appended where the cumulative PV belongs.
AppendPeriod_PeriodAsCumulative(self, fwd, letValue, alpha, intrinsic, dfEnd, capFloorValue) ==
    [self EXCEPT
        !.capFloorLetFwdRates = Append(@, fwd),
        !.capFloorLetValues = Append(@, letValue),
        !.capFloorLetAlphas = Append(@, alpha),
        !.capFloorLetIntrinsic = Append(@, intrinsic),
        !.capFloorLetDiscountFactors = Append(@, dfEnd),
        !.capFloorPV = Append(@, letValue)]

\* The six appends that end a period.
AppendPeriod(self, fwd, letValue, alpha, intrinsic, dfEnd, capFloorValue) ==
    [self EXCEPT
        !.capFloorLetFwdRates = Append(@, fwd),
        !.capFloorLetValues = Append(@, letValue),
        !.capFloorLetAlphas = Append(@, alpha),
        !.capFloorLetIntrinsic = Append(@, intrinsic),
        !.capFloorLetDiscountFactors = Append(@, dfEnd),
        !.capFloorPV = Append(@, capFloorValue)]

\* Slip: the series are set up once and appended to by every later call.
ResetSeries_OnlyWhenEmpty(self) ==
    IF self.capFloorPV # <<>> THEN self
    ELSE [self EXCEPT
            !.capFloorLetValues = <<0>>,
            !.capFloorLetAlphas = <<0>>,
            !.capFloorLetFwdRates = <<0>>,
            !.capFloorLetIntrinsic = <<0>>,
            !.capFloorLetDiscountFactors = <<DfOne>>,
            !.capFloorPV = <<0>>]

\* The series reset to their first, sentinel entry.
ResetSeries(self) ==
    [self EXCEPT
        !.capFloorLetValues = <<0>>,
        !.capFloorLetAlphas = <<0>>,
        !.capFloorLetFwdRates = <<0>>,
        !.capFloorLetIntrinsic = <<0>>,
        !.capFloorLetDiscountFactors = <<DfOne>>,
        !.capFloorPV = <<0>>]

\* Slip: "if not self._lastFixing", which takes a fixing of 0.0 for none.
FirstFwdRate_Truthy(self, liborCurve, startDate, endDate) ==
    IF self.lastFixing = None \/ self.lastFixing = 0
    THEN fwdRate(liborCurve, startDate, endDate)
    ELSE self.lastFixing

\* The forward rate of the first period.
FirstFwdRate(self, liborCurve, startDate, endDate) ==
    IF self.lastFixing = None
    THEN fwdRate(liborCurve, startDate, endDate)
    ELSE self.lastFixing

\* The first caplet or floorlet, valued with its known payoff.
FirstPeriod(self, liborCurve) ==
    LET startDate == self.startDate
        endDate == At(self.capFloorDates, 1)
        fwd == FirstFwdRate(self, liborCurve, startDate, endDate)
        alpha == yearFrac(startDate, endDate)
        dfEnd == df(liborCurve, endDate)
        capFloorLetValue == IntrinsicValue(self, dfEnd, alpha, fwd)
    IN AppendPeriod(self, fwd, capFloorLetValue, alpha, capFloorLetValue,
                    dfEnd, capFloorLetValue)

\* for i in range(2, numOptions): the periods priced by the model.
RECURSIVE ValuePeriods(_, _, _, _, _, _)
ValuePeriods(self, i, capFloorValue, valuationDate, liborCurve, model) ==
    IF i >= Len(self.capFloorDates)
    THEN [self |-> self, outcome |-> Return(capFloorValue)]
    ELSE
      LET startDate == At(self.capFloorDates, i - 1)
          endDate == At(self.capFloorDates, i)
          alpha == yearFrac(startDate, endDate)
          dfEnd == df(liborCurve, endDate)
          fwd == fwdRate(liborCurve, startDate, endDate)
          intrinsicValue == IntrinsicValue(self, dfEnd, alpha, fwd)
          priced == valueCapletFloorLet(self, valuationDate, startDate,
                                        endDate, liborCurve, model)
          capFloorLetValue == Mul(priced.value, self.notional * alpha)
          total == Add(capFloorValue, capFloorLetValue)
      IN IF priced.kind = "raise"
         THEN [self |-> self, outcome |-> priced]
         ELSE ValuePeriods(
                 AppendPeriod(self, fwd, capFloorLetValue, alpha,
                              intrinsicValue, dfEnd, total),
                 i + 1, total, valuationDate, liborCurve, model)

\* Slip: the number of dates is checked before the strike.
ScheduleError_DatesFirst(strikeRate, numOptions) ==
    IF numOptions <= 1 THEN "Number of options in capfloor equals 1"
    ELSE IF strikeRate < 0 THEN "Strike < 0.0"
    ELSE ""

\* The checks on the strike and on the number of dates: the message of the
\* error raised, or "" when both pass.
ScheduleError(strikeRate, numOptions) ==
    IF strikeRate < 0 THEN "Strike < 0.0"
    ELSE IF numOptions <= 1 THEN "Number of options in capfloor equals 1"
    ELSE ""

value(self, valuationDate, liborCurve, model) ==
    LET dated == [self EXCEPT
                    !.valuationDate = valuationDate,
                    !.capFloorDates =
                        GenerateSchedule(self.startDate, self.maturityDate,
                                         self.frequencyType)]
        numOptions == Len(dated.capFloorDates)
        first == FirstPeriod(ResetSeries(dated), liborCurve)
        error == ScheduleError(self.strikeRate, numOptions)
    IN IF error # ""
       THEN [self |-> dated, outcome |-> Raise(error)]
       ELSE ValuePeriods(first, 2, At(first.capFloorPV, 1), valuationDate,
                         liborCurve, model)

(***************************************************************************)
(* The inputs explored.                                                    *)
(***************************************************************************)
StartDates == {0}

MaturityDates == -1..MaxDate

OptionTypes == FinLiborCapFloorType \cup {"SWAPTION"}

StrikeRates == -1..MaxStrike

LastFixings == {None, 0, 3}

FrequencyTypes == FinFrequencyTypes

Notionals == {1, 3}

\* Valuation dates on or before the start date: each priced period has a
\* positive time to expiry.
ValuationDates == {-1, 0}

(***************************************************************************)
(* The state machine of one instrument: capFloor, the last call made on it *)
(* (lastOp, lastArgs), how that call ended (lastOutcome), and how the      *)
(* value() call before the last one ended, "none" when there was none      *)
(* (earlier).                                                              *)
(***************************************************************************)
Init ==
    /\ capFloor = NoInstrument
    /\ lastOp = "none"
    /\ lastArgs = <<>>
    /\ lastOutcome = NoOutcome
    /\ earlier = "none"

\* capFloor = FinLiborCapFloor(...), while there is no instrument yet: with an
\* error none is made, and the construction may be tried again.
Construct ==
    /\ ~capFloor.constructed
    /\ \E startDate \in StartDates, maturityDate \in MaturityDates,
       optionType \in OptionTypes, strikeRate \in StrikeRates,
       lastFixing \in LastFixings, frequencyType \in FrequencyTypes,
       notional \in Notionals :
        LET made == init(startDate, maturityDate, optionType, strikeRate,
                         lastFixing, frequencyType, notional)
        IN /\ capFloor' = made.self
           /\ lastOp' = "init"
           /\ lastArgs' = [startDate |-> startDate,
                           maturityDate |-> maturityDate,
                           optionType |-> optionType,
                           strikeRate |-> strikeRate,
                           lastFixing |-> lastFixing,
                           frequencyType |-> frequencyType,
                           notional |-> notional]
           /\ lastOutcome' = made.outcome
           /\ earlier' = "none"

\* capFloor.value(valuationDate, liborCurve, model)
Value ==
    /\ capFloor.constructed
    /\ \E valuationDate \in ValuationDates, liborCurve \in LiborCurves,
          model \in Models :
        LET done == value(capFloor, valuationDate, liborCurve, model)
        IN /\ capFloor' = done.self
           /\ lastOp' = "value"
           /\ lastArgs' = [valuationDate |-> valuationDate,
                           liborCurve |-> liborCurve,
                           model |-> model]
           /\ lastOutcome' = done.outcome
           /\ earlier' = IF lastOp = "value" THEN lastOutcome.kind ELSE "none"

Next == Construct \/ Value

Spec == Init /\ [][Next]_vars

(***************************************************************************)
(* Vocabulary of the properties.                                           *)
(***************************************************************************)
ValueReturned == lastOp = "value" /\ lastOutcome.kind = "return"

ValueRaised == lastOp = "value" /\ lastOutcome.kind = "raise"

\* The result series of an instrument, in the order of printLeg's columns.
Series(self) ==
    <<self.capFloorLetAlphas, self.capFloorLetFwdRates,
      self.capFloorLetIntrinsic, self.capFloorLetDiscountFactors,
      self.capFloorLetValues, self.capFloorPV>>

\* The schedule the terms of the instrument generate.
TermDates ==
    GenerateSchedule(capFloor.startDate, capFloor.maturityDate,
                     capFloor.frequencyType)

\* The instrument as its constructor leaves it.
Fresh(self) ==
    init(self.startDate, self.maturityDate, self.optionType, self.strikeRate,
         self.lastFixing, self.frequencyType, self.notional).self

\* The last value() call, made on another instrument.
LastValueOn(self) ==
    value(self, lastArgs.valuationDate, lastArgs.liborCurve, lastArgs.model)

SupportedModels ==
    {"FinLiborModelBlack", "FinLiborModelShiftedBlack", "FinLiborModelSABR"}

(***************************************************************************)
(* C1: a value() call that raises leaves the instrument (result series,    *)
(* dates, valuationDate) exactly as it was before the call.                *)
(***************************************************************************)
C1_FailedValueChangesNothing ==
    [][(lastOp' = "value" /\ lastOutcome'.kind = "raise")
         => capFloor' = capFloor]_vars

(***************************************************************************)
(* C2: after a value() call that returns, the six result series have the   *)
(* length of the date sequence, N + 1, and entry 0 of each is the sentinel *)
(* (alpha 0, forward 0, intrinsic 0, discount factor 1.0, PV 0, cumulative *)
(* PV 0).                                                                  *)
(***************************************************************************)
C2_SeriesAligned ==
    ValueReturned =>
        /\ capFloor.capFloorDates = TermDates
        /\ \A k \in 1..6 :
              Len(Series(capFloor)[k]) = Len(capFloor.capFloorDates)
        /\ At(capFloor.capFloorLetAlphas, 0) = 0
        /\ At(capFloor.capFloorLetFwdRates, 0) = 0
        /\ At(capFloor.capFloorLetIntrinsic, 0) = 0
        /\ At(capFloor.capFloorLetDiscountFactors, 0) = DfOne
        /\ At(capFloor.capFloorLetValues, 0) = 0
        /\ At(capFloor.capFloorPV, 0) = 0

C2_Witness ==
    /\ ValueReturned
    /\ Len(capFloor.capFloorDates) = 4
    /\ Len(capFloor.capFloorPV) = 4

(***************************************************************************)
(* C3: after any sequence of value() calls whose last one returned, the    *)
(* instrument and the returned value are those the last call produces on a *)
(* freshly constructed instrument with the same terms; the series have     *)
(* N + 1 entries.                                                          *)
(***************************************************************************)
C3_LastCallOverwrites ==
    ValueReturned =>
        /\ capFloor = LastValueOn(Fresh(capFloor)).self
        /\ lastOutcome = LastValueOn(Fresh(capFloor)).outcome
        /\ \A k \in 1..6 : Len(Series(capFloor)[k]) = Len(TermDates)

C3_Witness ==
    /\ ValueReturned
    /\ earlier = "raise"
    /\ Len(capFloor.capFloorDates) = 4

(***************************************************************************)
(* C4: a construction with startDate >= maturityDate fails with an input   *)
(* error and makes no instrument.                                          *)
(***************************************************************************)
C4_StartStrictlyBeforeMaturity ==
    (lastOp = "init" /\ lastArgs.startDate >= lastArgs.maturityDate) =>
        /\ lastOutcome.kind = "raise"
        /\ ~capFloor.constructed

(***************************************************************************)
(* C5: value() with a model that is none of Black, ShiftedBlack, SABR      *)
(* fails with the unsupported-model error whenever the strike is not       *)
(* negative and the schedule has at least one accrual period.              *)
(***************************************************************************)
C5_UnknownModelRejected ==
    (/\ lastOp = "value"
     /\ lastArgs.model.type \notin SupportedModels
     /\ capFloor.strikeRate >= 0
     /\ Len(capFloor.capFloorDates) >= 2) =>
        lastOutcome = Raise("Unknown model type")

(***************************************************************************)
(* C6: value() fails with a schedule error exactly when the strike is      *)
(* negative or the schedule has fewer than 2 dates; with both, the error   *)
(* is the one of the negative strike.                                      *)
(***************************************************************************)
C6_ScheduleErrors ==
    lastOp = "value" =>
        LET short == Len(capFloor.capFloorDates) < 2
            negative == capFloor.strikeRate < 0
            tooShort == Raise("Number of options in capfloor equals 1")
        IN /\ capFloor.capFloorDates = TermDates
           /\ (lastOutcome \in {Raise("Strike < 0.0"), tooShort})
                 <=> (negative \/ short)
           /\ negative => lastOutcome = Raise("Strike < 0.0")
           /\ (short /\ ~negative) => lastOutcome = tooShort

C6_Witness ==
    /\ lastOp = "value"
    /\ capFloor.strikeRate < 0
    /\ Len(capFloor.capFloorDates) < 2
    /\ lastOutcome = Raise("Strike < 0.0")

(***************************************************************************)
(* C7: the pricer with a ShiftedBlack model of shift 0 has the outcome it  *)
(* has with the Black model of the same volatility: the same price, or an  *)
(* error exactly when Black gives one.                                     *)
(***************************************************************************)
C7_ShiftZeroIsBlack ==
    (/\ lastOp = "value"
     /\ capFloor.strikeRate >= 0
     /\ lastArgs.model.type = "FinLiborModelShiftedBlack"
     /\ lastArgs.model.shift = 0) =>
        \A i \in 2..(Len(capFloor.capFloorDates) - 1) :
            LET shifted ==
                  valueCapletFloorLet(capFloor, lastArgs.valuationDate,
                      At(capFloor.capFloorDates, i - 1),
                      At(capFloor.capFloorDates, i),
                      lastArgs.liborCurve, lastArgs.model)
                black ==
                  valueCapletFloorLet(capFloor, lastArgs.valuationDate,
                      At(capFloor.capFloorDates, i - 1),
                      At(capFloor.capFloorDates, i),
                      lastArgs.liborCurve,
                      FinLiborModelBlack(lastArgs.model.volatility))
            IN /\ shifted.kind = black.kind
               /\ shifted.kind = "return" => shifted.value = black.value

(***************************************************************************)
(* C8: put-call parity per period.  The instrument is valued together with *)
(* its twin, the instrument of the same terms and the other option type,   *)
(* by the same value() call.                                               *)
(***************************************************************************)
Twin(self) ==
    Fresh([self EXCEPT
             !.optionType = IF self.optionType = "CAP" THEN "FLOOR" ELSE "CAP"])

\* Caplet PV minus floorlet PV of period i, NaN when either is.
CapMinusFloor(i) ==
    LET other == LastValueOn(Twin(capFloor)).self
        mine == At(capFloor.capFloorLetValues, i)
        its == At(other.capFloorLetValues, i)
    IN IF capFloor.optionType = "CAP" THEN Sub(mine, its) ELSE Sub(its, mine)

\* notional * alpha[i] * df[i] * (f[i] - k), from the recorded series.
ForwardAgreement(i, k) ==
    capFloor.notional * At(capFloor.capFloorLetAlphas, i)
        * At(capFloor.capFloorLetDiscountFactors, i)
        * Money(At(capFloor.capFloorLetFwdRates, i) - k)

\* Both valuations returned and both PVs of period i are numbers.
ParityCase(i) ==
    /\ ValueReturned
    /\ LastValueOn(Twin(capFloor)).outcome.kind = "return"
    /\ i \in 1..(Len(capFloor.capFloorDates) - 1)
    /\ ~IsNaN(CapMinusFloor(i))

\* C8 as claimed: at every period i >= 1, strike 0 included,
\* capletPV[i] - floorletPV[i] = notional * alpha[i] * df[i] * (f[i] - k).
C8_ParityEveryStrike ==
    \A i \in 1..MaxDate :
        ParityCase(i) =>
            CapMinusFloor(i) = ForwardAgreement(i, capFloor.strikeRate)

\* C8 as amended: the parity holds with the strike the period was priced
\* with: k itself in period 1 and for k > 0, and 1e-10 in the periods
\* i >= 2 of an instrument of strike 0.
C8_ParityPricedStrike ==
    \A i \in 1..MaxDate :
        ParityCase(i) =>
            CapMinusFloor(i) =
                ForwardAgreement(i,
                    IF i >= 2 THEN PricerStrike(capFloor.strikeRate)
                    ELSE capFloor.strikeRate)

C8_Witness ==
    /\ ParityCase(2)
    /\ capFloor.strikeRate > 0
    /\ lastArgs.model.type = "FinLiborModelShiftedBlack"
    /\ At(capFloor.capFloorLetValues, 2) > 0
    /\ CapMinusFloor(2) # At(capFloor.capFloorLetValues, 2)
    /\ CapMinusFloor(2) # 0 - At(capFloor.capFloorLetValues, 2)

(***************************************************************************)
(* C9: period 1 is valued at its intrinsic value, whatever the model:      *)
(* periodPV[1] = intrinsic[1] = cumulativePV[1] = notional * alpha[1] *    *)
(* df[1] * max(F - k, 0) for a cap, max(k - F, 0) for a floor, where F is  *)
(* lastFixing when one was given and the curve's forward over              *)
(* [dates[0], dates[1]] otherwise; lastFixing is used in no later period.  *)
(***************************************************************************)
C9_FirstPeriodIntrinsic ==
    ValueReturned =>
        LET date0 == At(capFloor.capFloorDates, 0)
            date1 == At(capFloor.capFloorDates, 1)
            F == IF capFloor.lastFixing # None
                 THEN capFloor.lastFixing
                 ELSE fwdRate(lastArgs.liborCurve, date0, date1)
            k == capFloor.strikeRate
            payoff == IF capFloor.optionType = "CAP"
                      THEN Max(F - k, 0) ELSE Max(k - F, 0)
            expected == capFloor.notional * yearFrac(date0, date1)
                            * df(lastArgs.liborCurve, date1) * Money(payoff)
            unfixed == LastValueOn(Fresh([capFloor EXCEPT !.lastFixing = None]))
        IN /\ At(capFloor.capFloorLetFwdRates, 1) = F
           /\ At(capFloor.capFloorLetValues, 1) = expected
           /\ At(capFloor.capFloorLetIntrinsic, 1) = expected
           /\ At(capFloor.capFloorPV, 1) = expected
           /\ \A i \in 2..(Len(capFloor.capFloorDates) - 1) :
                /\ At(capFloor.capFloorLetFwdRates, i) =
                      fwdRate(lastArgs.liborCurve,
                              At(capFloor.capFloorDates, i - 1),
                              At(capFloor.capFloorDates, i))
                /\ At(capFloor.capFloorLetValues, i) =
                      At(unfixed.self.capFloorLetValues, i)

C9_Witness ==
    /\ ValueReturned
    /\ capFloor.lastFixing = 0
    /\ capFloor.optionType = "FLOOR"
    /\ Len(capFloor.capFloorDates) >= 3
    /\ At(capFloor.capFloorLetValues, 1) > 0
    /\ At(capFloor.capFloorLetFwdRates, 2) # 0

(***************************************************************************)
(* C10: the cumulative PV series is the running sum of the per-period PV   *)
(* series, from cumulativePV[0] = 0, and value() returns its last entry.   *)
(***************************************************************************)
C10_RunningSum ==
    ValueReturned =>
        LET last == Len(capFloor.capFloorDates) - 1
        IN /\ At(capFloor.capFloorPV, 0) = 0
           /\ \A i \in 1..last :
                At(capFloor.capFloorPV, i) =
                    Add(At(capFloor.capFloorPV, i - 1),
                        At(capFloor.capFloorLetValues, i))
           /\ lastOutcome.value = At(capFloor.capFloorPV, last)

C10_Witness ==
    /\ ValueReturned
    /\ Len(capFloor.capFloorDates) = 4
    /\ At(capFloor.capFloorLetValues, 2) > 0
    /\ At(capFloor.capFloorLetValues, 3) > 0
    /\ At(capFloor.capFloorPV, 3) > At(capFloor.capFloorPV, 2)

====
